---- MODULE Spec2Model ----
(***************************************************************************)
(* Blackjack session of amedeocrocii/BlackJack (francescoversion.py and    *)
(* its backup copy): deck, hand scoring, one round, the session loop.      *)
(* A card is a record [value, suit] as in create_deck.  The program is a   *)
(* single thread; pc is its position at the places where it blocks on      *)
(* input() or sits at a loop head.                                         *)
(***************************************************************************)
EXTENDS Integers, Sequences, FiniteSets, Bags, TLC

VARIABLES pc, player_money, bet, deck, player_hand, dealer_hand,
          player_total, dealer_total, msg

vars == <<pc, player_money, bet, deck, player_hand, dealer_hand,
          player_total, dealer_total, msg>>

(***************************************************************************)
(* Bounds of the model.                                                    *)
(***************************************************************************)
\* Largest balance from which a further round is explored, and largest
\* buy-in typed; bets typed range over -1 .. MaxMoney + 1.
MaxMoney == 2
\* Number of cards, counted from the top of the deck, whose ranks the
\* shuffle chooses freely; the cards below them keep one of TailOrders.
MaxTop == 2
\* Largest hand the scorer is applied to on its own.
MaxHand == 4

(***************************************************************************)
(* Card / deck model.                                                      *)
(***************************************************************************)
suits == <<"Hearts", "Diamonds", "Clubs", "Spades">>

values == <<"2", "3", "4", "5", "6", "7", "8", "9", "10", "J", "Q", "K", "A">>

\* [{"value": value, "suit": suit} for suit in suits for value in values]
single_deck ==
  [i \in 1..(Len(suits) * Len(values)) |->
     [value |-> values[((i - 1) % Len(values)) + 1],
      suit  |-> suits[((i - 1) \div Len(values)) + 1]]]

RemoveAt(d, i) == SubSeq(d, 1, i - 1) \o SubSeq(d, i + 1, Len(d))

\* Index of the last card of d with value v, 0 if there is none.
LastIndexOf(d, v) ==
  LET hits == {i \in 1..Len(d) : d[i].value = v}
  IN  IF hits = {} THEN 0 ELSE CHOOSE i \in hits : \A j \in hits : j <= i

\* The cards of d with the last card of each value of top moved to the end
\* of the list, so that they are popped in the order of top.
RECURSIVE PutOnTop(_, _)
PutOnTop(d, top) ==
  IF top = <<>> THEN d
  ELSE LET i == LastIndexOf(d, Head(top))
       IN  IF i = 0 THEN PutOnTop(d, Tail(top))
           ELSE PutOnTop(RemoveAt(d, i), Tail(top)) \o <<d[i]>>

\* d rearranged stably so that pops yield all Aces, then all 2s, 3s, ...
RECURSIVE LowFirst(_, _)
LowFirst(d, k) ==
  IF k = 0 THEN <<>>
  ELSE LET v == IF k = Len(values) THEN "A" ELSE values[Len(values) - k]
       IN  LowFirst(d, k - 1) \o SelectSeq(d, LAMBDA c : c.value = v)

\* random.shuffle(deck): any permutation may result.  The model explores
\* the permutations whose top MaxTop cards have freely chosen ranks, above
\* a remainder left as built or sorted low cards first.
TailOrders == {"built", "low"}

Ranks == {values[k] : k \in 1..Len(values)}

Tops == [1..MaxTop -> Ranks]

\* Faulty variant: the repetition left out (deck = single_deck).
create_deck_single == single_deck

\* Faulty variant: a slice written for the repetition (single_deck[:2]).
create_deck_sliced == SubSeq(single_deck, 1, 2)

\* deck = single_deck * 2
create_deck == single_deck \o single_deck

shuffle_deck(d) ==
  { PutOnTop(IF o = "low" THEN LowFirst(d, Len(values)) ELSE d, t) :
      t \in Tops, o \in TailOrders }

\* Faulty variant: deck[-1], the last card read but not removed.
deal_card_peek(d) == [card |-> d[Len(d)], deck |-> d]

\* Faulty variant: deck.pop(0), the first card instead of the last.
deal_card_first(d) == [card |-> d[1], deck |-> SubSeq(d, 2, Len(d))]

\* deck.pop(): the last card, and the deck without it.
deal_card(d) == [card |-> d[Len(d)], deck |-> SubSeq(d, 1, Len(d) - 1)]

(***************************************************************************)
(* Hand scorer.                                                            *)
(***************************************************************************)
\* Faulty variant: the Ace valued 1 from the start.
card_value_low_ace(card) ==
  IF card.value \in {"J", "Q", "K"} THEN 10
  ELSE IF card.value = "A" THEN 1
  ELSE CHOOSE n \in 2..10 : values[n - 1] = card.value

card_value(card) ==
  IF card.value \in {"J", "Q", "K"} THEN 10
  ELSE IF card.value = "A" THEN 11
  ELSE CHOOSE n \in 2..10 : values[n - 1] = card.value

RECURSIVE SumValues(_)
SumValues(hand) ==
  IF hand = <<>> THEN 0 ELSE card_value(Head(hand)) + SumValues(Tail(hand))

CountAces(hand) == Cardinality({i \in 1..Len(hand) : hand[i].value = "A"})

\* Faulty variant: while total >= 21 and aces.
RECURSIVE SoftAdjust_at_21(_, _)
SoftAdjust_at_21(total, aces) ==
  IF total >= 21 /\ aces > 0 THEN SoftAdjust_at_21(total - 10, aces - 1) ELSE total

\* while total > 21 and aces: total -= 10; aces -= 1
RECURSIVE SoftAdjust(_, _)
SoftAdjust(total, aces) ==
  IF total > 21 /\ aces > 0 THEN SoftAdjust(total - 10, aces - 1) ELSE total

\* Faulty variant: the flag honoured only when the hand is over 21.
calculate_total_hard_if_over(hand, has_hit_after_ace) ==
  IF has_hit_after_ace /\ SumValues(hand) > 21
  THEN SumValues(hand) - CountAces(hand) * 10
  ELSE SoftAdjust(SumValues(hand), CountAces(hand))

calculate_total(hand, has_hit_after_ace) ==
  IF has_hit_after_ace
  THEN SumValues(hand) - CountAces(hand) * 10
  ELSE SoftAdjust(SumValues(hand), CountAces(hand))

(***************************************************************************)
(* Session and round conditions of main().                                 *)
(***************************************************************************)
\* int(text) on the typed line: the number, or ValueError.
IntInput(n) == [kind |-> "int", n |-> n]
WordInput(w) == [kind |-> w, n |-> 0]
ParsesAsInt(inp) == inp.kind = "int"

BuyInInputs == {IntInput(n) : n \in -1..MaxMoney} \cup {WordInput("other")}
BetInputs == {IntInput(n) : n \in -1..(MaxMoney + 1)}
               \cup {WordInput("cashout"), WordInput("other")}
MoveInputs == {"hit", "stay", "other"}

\* Faulty variant: while player_money >= 0.
SessionContinues_at_zero(money) == money >= 0

\* while player_money > 0
SessionContinues(money) == money > 0

\* Faulty variant: if bet <= 0, the balance not compared.
BetRejected_no_upper(b, money) == b <= 0

\* Faulty variant: if bet < 0 or bet > player_money.
BetRejected_zero_allowed(b, money) == b < 0 \/ b > money

\* if bet <= 0 or bet > player_money: rejected
BetRejected(b, money) == b <= 0 \/ b > money

\* Faulty variant: the bust test never true.
IsBust_never(total) == FALSE

\* Faulty variant: > 22.
IsBust_off_by_one(total) == total > 22

\* if total > 21 / if player_total > 21
IsBust(total) == total > 21

\* if len(player_hand) == 2 and player_total == 21
IsBlackjack(hand, total) == Len(hand) = 2 /\ total = 21

\* Faulty variant: int(bet * 1.5).
BlackjackPayout_three_to_two(b) == (b * 15) \div 10

\* int(bet * 2.5)
BlackjackPayout(b) == (b * 25) \div 10

\* Faulty variant: while dealer_total < 16.
DealerMustDraw_below_16(total) == total < 16

\* Faulty variant: while dealer_total <= 17.
DealerMustDraw_on_17(total) == total <= 17

\* while dealer_total < 17
DealerMustDraw(total) == total < 17

\* Faulty variant: a tie counted for the dealer (player_total <= dealer_total).
SettleDelta_tie_loses(p, d, b) ==
  IF d > 21 THEN b
  ELSE IF p > d THEN b
  ELSE 0 - b

\* Balance change of the final comparison.
SettleDelta(p, d, b) ==
  IF d > 21 THEN b
  ELSE IF p > d THEN b
  ELSE IF p < d THEN 0 - b
  ELSE 0

\* The lines main() prints to announce a result or a rejection.
BustedMsg == "I'm sorry. You busted! You lose your bet."
BlackjackMsg == "Lucky one! Blackjack! You win 2.5x your bet!"
DealerBustsMsg == "Dealer busts! You win!"
YouWinMsg == "You win!"
DealerWinsMsg == "Dealer wins. You lose your bet."
PushMsg == "Push! It's a tie. Your bet is returned."
BetRejectedMsg == "Bet must be a positive number not exceeding your current money."
InvalidBetMsg == "Invalid bet. Please enter a valid number and stop wasting my time."
InvalidMoveMsg == "Please choose either 'hit' or 'stay'."

SettleMsg(p, d) ==
  IF d > 21 THEN DealerBustsMsg
  ELSE IF p > d THEN YouWinMsg
  ELSE IF p < d THEN DealerWinsMsg
  ELSE PushMsg

\* Back at the head of `while player_money > 0` after a round.
NextRound(money) == IF SessionContinues(money) THEN "bet" ELSE "cash_out"

(***************************************************************************)
(* main(): state after construction and one action per step.               *)
(***************************************************************************)
NoCards == <<>>

\* deck = create_deck(); shuffle_deck(deck): the lists this can leave.
ShuffledDecks == shuffle_deck(create_deck)

Init ==
  /\ pc = "buy_in"
  /\ player_money = 0
  /\ bet = 0
  /\ deck = NoCards
  /\ player_hand = NoCards
  /\ dealer_hand = NoCards
  /\ player_total = 0
  /\ dealer_total = 0
  /\ msg = "Welcome to Blackjack!"

\* deck.pop() on an empty list raises IndexError and ends the program.
Crash ==
  /\ pc' = "IndexError"
  /\ msg' = "IndexError: pop from empty list"

\* Buy-in loop: int(buy_in), accepted when positive.
BuyIn(inp) ==
  /\ pc = "buy_in"
  /\ IF ~ParsesAsInt(inp)
     THEN /\ msg' = "Please buy in for a valid amount."
          /\ UNCHANGED <<pc, player_money>>
     ELSE /\ player_money' = inp.n
          /\ IF inp.n > 0
             THEN /\ pc' = NextRound(inp.n)
                  /\ UNCHANGED msg
             ELSE /\ msg' = "Hey if you don't have money just leave!"
                  /\ UNCHANGED pc
  /\ UNCHANGED <<bet, deck, player_hand, dealer_hand, player_total, dealer_total>>

\* 'cashout' typed at the bet prompt: break.
Cashout(inp) ==
  /\ pc = "bet"
  /\ inp.kind = "cashout"
  /\ pc' = "cash_out"
  /\ UNCHANGED <<player_money, bet, deck, player_hand, dealer_hand,
                 player_total, dealer_total, msg>>

\* Not a number: ValueError, continue.
BetInvalid(inp) ==
  /\ pc = "bet"
  /\ inp.kind = "other"
  /\ msg' = InvalidBetMsg
  /\ pc' = NextRound(player_money)
  /\ UNCHANGED <<player_money, bet, deck, player_hand, dealer_hand,
                 player_total, dealer_total>>

\* A number that is rejected, or accepted: then the deck is built and
\* shuffled and one card is dealt to each hand.
PlaceBet(inp) ==
  /\ pc = "bet"
  /\ ParsesAsInt(inp)
  /\ bet' = inp.n
  /\ UNCHANGED <<player_money, player_total, dealer_total>>
  /\ IF BetRejected(inp.n, player_money)
     THEN /\ msg' = BetRejectedMsg
          /\ pc' = NextRound(player_money)
          /\ UNCHANGED <<deck, player_hand, dealer_hand>>
     ELSE /\ player_money <= MaxMoney
          /\ \E shuffled \in ShuffledDecks :
               IF Len(shuffled) = 0
               THEN Crash /\ deck' = shuffled
                          /\ UNCHANGED <<player_hand, dealer_hand>>
               ELSE LET first == deal_card(shuffled)
                    IN  /\ player_hand' = <<first.card>>
                        /\ IF Len(first.deck) = 0
                           THEN Crash /\ deck' = first.deck
                                      /\ UNCHANGED dealer_hand
                           ELSE LET second == deal_card(first.deck)
                                IN  /\ dealer_hand' = <<second.card>>
                                    /\ deck' = second.deck
                                    /\ msg' = "Your hand:"
                                    /\ pc' = "move"

\* Faulty variant: anything but 'hit' taken as 'stay' (no validation).
MoveInvalid_as_stay(move) ==
  /\ pc = "move"
  /\ move \notin {"hit", "stay"}
  /\ pc' = "player_done"
  /\ UNCHANGED <<player_money, bet, deck, player_hand, dealer_hand,
                 player_total, dealer_total, msg>>

\* Neither 'hit' nor 'stay': asked again.
MoveInvalid(move) ==
  /\ pc = "move"
  /\ move \notin {"hit", "stay"}
  /\ msg' = InvalidMoveMsg
  /\ UNCHANGED <<pc, player_money, bet, deck, player_hand, dealer_hand,
                 player_total, dealer_total>>

\* Faulty variant: the `elif total == 21: break` left out.
Hit_no_stop_at_21(move) ==
  /\ pc = "move"
  /\ move = "hit"
  /\ UNCHANGED <<player_money, bet, dealer_hand, player_total, dealer_total>>
  /\ IF Len(deck) = 0
     THEN Crash /\ UNCHANGED <<deck, player_hand>>
     ELSE LET drawn == deal_card(deck)
              hand  == Append(player_hand, drawn.card)
              total == calculate_total(hand, FALSE)
          IN  /\ deck' = drawn.deck
              /\ player_hand' = hand
              /\ IF IsBust(total)
                 THEN msg' = "Bust! You exceeded 21." /\ pc' = "player_done"
                 ELSE msg' = "Your hand:" /\ pc' = "move"

\* 'hit': one card to the player's hand; the loop ends over 21 or at 21.
Hit(move) ==
  /\ pc = "move"
  /\ move = "hit"
  /\ UNCHANGED <<player_money, bet, dealer_hand, player_total, dealer_total>>
  /\ IF Len(deck) = 0
     THEN Crash /\ UNCHANGED <<deck, player_hand>>
     ELSE LET drawn == deal_card(deck)
              hand  == Append(player_hand, drawn.card)
              total == calculate_total(hand, FALSE)
          IN  /\ deck' = drawn.deck
              /\ player_hand' = hand
              /\ IF IsBust(total)
                 THEN msg' = "Bust! You exceeded 21." /\ pc' = "player_done"
                 ELSE IF total = 21
                 THEN msg' = "It's your lucky day. You hit 21!" /\ pc' = "player_done"
                 ELSE msg' = "Your hand:" /\ pc' = "move"

\* 'stay': break.
Stay(move) ==
  /\ pc = "move"
  /\ move = "stay"
  /\ pc' = "player_done"
  /\ UNCHANGED <<player_money, bet, deck, player_hand, dealer_hand,
                 player_total, dealer_total, msg>>

\* After the player's loop: bust, blackjack, or on to the dealer's turn.
SettlePlayer ==
  /\ pc = "player_done"
  /\ LET total == calculate_total(player_hand, FALSE)
     IN  /\ player_total' = total
         /\ IF IsBust(total)
            THEN /\ msg' = BustedMsg
                 /\ player_money' = player_money - bet
                 /\ pc' = "round_over"
                 /\ UNCHANGED dealer_total
            ELSE IF IsBlackjack(player_hand, total)
            THEN /\ msg' = BlackjackMsg
                 /\ player_money' = player_money + BlackjackPayout(bet)
                 /\ pc' = "round_over"
                 /\ UNCHANGED dealer_total
            ELSE /\ msg' = "Dealer's starting hand:"
                 /\ dealer_total' = calculate_total(dealer_hand, FALSE)
                 /\ pc' = "dealer"
                 /\ UNCHANGED player_money
  /\ UNCHANGED <<bet, deck, player_hand, dealer_hand>>

\* Faulty variant: the bet paid inside the loop when the dealer goes over
\* 21, and again at the comparison.
DealerDraw_pays_on_bust ==
  /\ pc = "dealer"
  /\ DealerMustDraw(dealer_total)
  /\ UNCHANGED <<bet, player_hand, player_total>>
  /\ IF Len(deck) = 0
     THEN Crash /\ UNCHANGED <<deck, dealer_hand, dealer_total, player_money>>
     ELSE LET drawn == deal_card(deck)
              hand  == Append(dealer_hand, drawn.card)
              total == calculate_total(hand, FALSE)
          IN  /\ deck' = drawn.deck
              /\ dealer_hand' = hand
              /\ dealer_total' = total
              /\ msg' = "Dealer's hand:"
              /\ player_money' = IF total > 21 THEN player_money + bet
                                 ELSE player_money
              /\ pc' = IF total > 21 THEN "final" ELSE "dealer"

\* One pass of `while dealer_total < 17`, with its break over 21.
DealerDraw ==
  /\ pc = "dealer"
  /\ DealerMustDraw(dealer_total)
  /\ UNCHANGED <<player_money, bet, player_hand, player_total>>
  /\ IF Len(deck) = 0
     THEN Crash /\ UNCHANGED <<deck, dealer_hand, dealer_total>>
     ELSE LET drawn == deal_card(deck)
              hand  == Append(dealer_hand, drawn.card)
              total == calculate_total(hand, FALSE)
          IN  /\ deck' = drawn.deck
              /\ dealer_hand' = hand
              /\ dealer_total' = total
              /\ msg' = "Dealer's hand:"
              /\ pc' = IF total > 21 THEN "final" ELSE "dealer"

\* Final totals compared.
Settle ==
  /\ \/ pc = "final"
     \/ pc = "dealer" /\ ~DealerMustDraw(dealer_total)
  /\ msg' = SettleMsg(player_total, dealer_total)
  /\ player_money' = player_money + SettleDelta(player_total, dealer_total, bet)
  /\ pc' = "round_over"
  /\ UNCHANGED <<bet, deck, player_hand, dealer_hand, player_total, dealer_total>>

\* Head of `while player_money > 0` after a round.  The deck, the hands and
\* the totals of the finished round are dead from here on: the next round
\* assigns each of them before it reads it.
LoopHead ==
  /\ pc = "round_over"
  /\ pc' = NextRound(player_money)
  /\ deck' = NoCards
  /\ player_hand' = NoCards
  /\ dealer_hand' = NoCards
  /\ player_total' = 0
  /\ dealer_total' = 0
  /\ UNCHANGED <<player_money, bet, msg>>

Next ==
  \/ \E inp \in BuyInInputs : BuyIn(inp)
  \/ \E inp \in BetInputs : Cashout(inp)
  \/ \E inp \in BetInputs : BetInvalid(inp)
  \/ \E inp \in BetInputs : PlaceBet(inp)
  \/ \E move \in MoveInputs : MoveInvalid(move)
  \/ \E move \in MoveInputs : Hit(move)
  \/ \E move \in MoveInputs : Stay(move)
  \/ SettlePlayer
  \/ DealerDraw
  \/ Settle
  \/ LoopHead

Spec == Init /\ [][Next]_vars

\* The session with its progress assumptions: the statements after the
\* player's loop run on their own, and the player, asked again after every
\* rejected answer, at some point types 'hit' or 'stay'.
FairSpec ==
  /\ Spec
  /\ WF_vars(\E move \in MoveInputs : Hit(move) \/ Stay(move))
  /\ WF_vars(SettlePlayer)
  /\ WF_vars(DealerDraw)
  /\ WF_vars(Settle)

(***************************************************************************)
(* deal_card called over and over on a freshly built and shuffled deck;    *)
(* player_hand collects the cards it returns.                              *)
(***************************************************************************)
DrawInit ==
  /\ pc = "draw"
  /\ deck \in ShuffledDecks
  /\ player_hand = NoCards
  /\ player_money = 0
  /\ bet = 0
  /\ dealer_hand = NoCards
  /\ player_total = 0
  /\ dealer_total = 0
  /\ msg = ""

DrawCard ==
  /\ pc = "draw"
  /\ IF Len(deck) = 0
     THEN Crash /\ UNCHANGED <<deck, player_hand>>
     ELSE LET drawn == deal_card(deck)
          IN  /\ deck' = drawn.deck
              /\ player_hand' = Append(player_hand, drawn.card)
              /\ UNCHANGED <<pc, msg>>
  /\ UNCHANGED <<player_money, bet, dealer_hand, player_total, dealer_total>>

DrawSpec == DrawInit /\ [][DrawCard]_vars

(***************************************************************************)
(* calculate_total applied to every hand of up to MaxHand cards, in soft   *)
(* mode (pc = "soft") or with has_hit_after_ace set (pc = "hard"), rescored *)
(* as each card is added; player_total holds the result.                   *)
(***************************************************************************)
ScoreInit ==
  /\ pc \in {"soft", "hard"}
  /\ player_hand = NoCards
  /\ player_total = calculate_total(NoCards, pc = "hard")
  /\ deck = NoCards
  /\ player_money = 0
  /\ bet = 0
  /\ dealer_hand = NoCards
  /\ dealer_total = 0
  /\ msg = ""

AddCard(rank) ==
  /\ pc \in {"soft", "hard"}
  /\ Len(player_hand) < MaxHand
  /\ LET card == [value |-> rank,
                  suit  |-> suits[(Len(player_hand) % Len(suits)) + 1]]
         hand == Append(player_hand, card)
     IN  /\ player_hand' = hand
         /\ player_total' = calculate_total(hand, pc = "hard")
  /\ UNCHANGED <<pc, deck, player_money, bet, dealer_hand, dealer_total, msg>>

ScoreSpec == ScoreInit /\ [][\E rank \in Ranks : AddCard(rank)]_vars

(***************************************************************************)
(* Properties.                                                             *)
(***************************************************************************)
\* floor(2.5 * b), for b >= 0.
Floor2_5(b) == CHOOSE k \in 0..(3 * b) : 2 * k <= 5 * b /\ 5 * b < 2 * (k + 1)

\* The total of a hand as the round scores it.
Total(hand) == calculate_total(hand, FALSE)

HandValues(hand) == [i \in 1..Len(hand) |-> hand[i].value]

\* C1. Bust precedence: a hit that takes the player's total over 21 ends
\* the player's turn, and the next step settles the round as a bust: the
\* balance drops by exactly the bet and the dealer, holding its one initial
\* card, draws nothing.
C1_BustPrecedence ==
  [][ /\ (pc = "move" /\ player_hand' # player_hand /\ Total(player_hand') > 21)
           => pc' = "player_done"
      /\ (pc = "player_done" /\ Total(player_hand) > 21)
           => /\ pc' = "round_over"
              /\ msg' = BustedMsg
              /\ player_money' = player_money - bet
              /\ Len(dealer_hand) = 1
              /\ dealer_hand' = dealer_hand
              /\ deck' = deck
      /\ (msg' = BustedMsg /\ msg # BustedMsg) => Total(player_hand) > 21
    ]_vars

C1_Witness ==
  /\ pc = "round_over"
  /\ msg = BustedMsg
  /\ Total(player_hand) > 21
  /\ Len(dealer_hand) = 1

C3_Scenario ==
  /\ HandValues(player_hand) = <<"A", "K">>
  /\ Len(dealer_hand) >= 1
  /\ dealer_hand[1].value = "10"

HasHitAfterAce ==
  \E i \in 1..(Len(player_hand) - 1) : player_hand[i].value = "A"

\* C4 as stated: once the player has hit while holding an Ace, the
\* player's hand is scored in hard mode, every Ace counting 1.
C4_HardModeAfterHit ==
  (pc \in {"dealer", "final", "round_over"} /\ HasHitAfterAce)
    => player_total = calculate_total(player_hand, TRUE)

\* C5. Dealer draw policy: in the dealer's turn a card is drawn exactly when
\* the dealer's total is below 17; at the comparison the dealer's total is
\* at least 17 and its total before the last draw was below 17.
C5_DealerDrawPolicy ==
  [][ /\ pc = "dealer"
           => /\ dealer_total = Total(dealer_hand)
              /\ (dealer_hand' # dealer_hand) <=> (dealer_total < 17)
              /\ (dealer_hand' # dealer_hand)
                   => /\ dealer_hand' = Append(dealer_hand, deck[Len(deck)])
                      /\ dealer_total' = Total(dealer_hand')
      /\ (pc \in {"dealer", "final"} /\ pc' = "round_over")
           => /\ Total(dealer_hand) >= 17
              /\ Len(dealer_hand) >= 2
              /\ Total(SubSeq(dealer_hand, 1, Len(dealer_hand) - 1)) < 17
    ]_vars

C5_Witness ==
  /\ pc = "round_over"
  /\ Len(dealer_hand) >= 3
  /\ Total(SubSeq(dealer_hand, 1, Len(dealer_hand) - 1)) = 16
  /\ dealer_total = Total(dealer_hand)

\* C6. Settlement after the dealer's turn: +bet when the dealer is over 21
\* or the player's total is higher, -bet when the player's total is lower
\* and the dealer is not over 21, 0 when the totals are equal; exactly one
\* of the three cases applies.
C6_Settlement ==
  [][ (pc \in {"dealer", "final"} /\ pc' = "round_over")
        => LET p == Total(player_hand)
               d == Total(dealer_hand)
               delta == player_money' - player_money
               win == d > 21 \/ p > d
               loss == p < d /\ d <= 21
               push == p = d
           IN  /\ player_total = p /\ dealer_total = d
               /\ win => delta = bet
               /\ loss => delta = 0 - bet
               /\ push => delta = 0
               /\ Cardinality({c \in {"win", "loss", "push"} :
                     \/ c = "win" /\ win
                     \/ c = "loss" /\ loss
                     \/ c = "push" /\ push}) = 1
    ]_vars

C6_Witness ==
  /\ pc = "round_over"
  /\ msg = PushMsg
  /\ player_total = dealer_total
  /\ Len(dealer_hand) >= 2

\* C7. Empty deck unreachable: no draw of a round finds the deck empty, so
\* the program never ends in IndexError, and wherever a draw can follow
\* the deck still holds a card.
C7_NoEmptyDeck ==
  /\ pc # "IndexError"
  /\ pc \in {"move", "dealer"} => Len(deck) >= 1

C7_Witness ==
  /\ pc = "round_over"
  /\ Len(player_hand) + Len(dealer_hand) >= 20
  /\ Len(deck) = Len(create_deck) - Len(player_hand) - Len(dealer_hand)

\* C8. Draw contract: a draw returns the last card of the deck and leaves
\* the deck without it, the rest in order; on a fresh double deck the first
\* 104 draws succeed and the 105th fails, the deck staying empty.
C8_DrawContract ==
  [][ pc = "draw"
        => IF Len(player_hand) < 104
           THEN /\ Len(deck) >= 1
                /\ player_hand' = Append(player_hand, deck[Len(deck)])
                /\ deck' = SubSeq(deck, 1, Len(deck) - 1)
                /\ deck' \o <<deck[Len(deck)]>> = deck
                /\ pc' = "draw"
           ELSE /\ Len(player_hand) = 104
                /\ pc' = "IndexError"
                /\ deck = NoCards /\ deck' = NoCards
    ]_vars

C8_Witness ==
  /\ pc = "IndexError"
  /\ Len(player_hand) = 104
  /\ deck = NoCards

\* C9. Bet validation: cards are dealt only for a bet with 0 < bet <=
\* balance; a bet that is not positive or exceeds the balance changes
\* neither the balance nor the deck nor the hands, and the bet prompt
\* follows.
C9_BetValidation ==
  [][ /\ (pc = "bet" /\ <<deck, player_hand, dealer_hand>>'
                          # <<deck, player_hand, dealer_hand>>)
           => /\ 0 < bet' /\ bet' <= player_money
              /\ player_money' = player_money
      /\ pc = "bet"
           => \A inp \in BetInputs :
                ((inp.n <= 0 \/ inp.n > player_money) /\ PlaceBet(inp))
                  => /\ UNCHANGED <<player_money, deck, player_hand, dealer_hand>>
                     /\ pc' = "bet"
    ]_vars

C9_Witness ==
  /\ pc = "bet"
  /\ msg = BetRejectedMsg
  /\ bet > player_money
  /\ deck = NoCards

\* C10. Session continuation: a bet is asked for and a round played only
\* with a positive balance; a round ending with balance 0 ends the
\* session, and after the session has ended (balance 0 or cash-out)
\* nothing changes any more.
C10_SessionContinuation ==
  [][ /\ pc' \in {"bet", "move", "player_done", "dealer", "final"}
           => player_money' > 0
      /\ (pc = "round_over" /\ player_money = 0) => pc' = "cash_out"
      /\ pc = "cash_out" => pc' = "cash_out" /\ player_money' = player_money
    ]_vars

C10_Witness ==
  /\ pc = "cash_out"
  /\ player_money = 0
  /\ msg \in {BustedMsg, DealerWinsMsg}

\* The positions inside a round, from the initial deal to its settlement.
InRound == pc \in {"move", "player_done", "dealer", "final"}

\* C11. Balance frame: once the buy-in is made the balance changes only in
\* the step that settles a round; the deal, hits, stays, rejected moves,
\* rejected bets and dealer draws leave it alone, and the bet keeps its
\* value from the deal until the round is settled.
C11_BalanceFrame ==
  [][ /\ (pc # "buy_in" /\ player_money' # player_money)
           => /\ pc \in {"player_done", "dealer", "final"}
              /\ pc' = "round_over"
      /\ (pc \in {"bet", "move"} \/ pc' \in {"move", "dealer", "final"})
           => player_money' = player_money
      /\ InRound => bet' = bet
    ]_vars

C11_Witness ==
  /\ pc = "dealer"
  /\ Len(player_hand) >= 2
  /\ Len(dealer_hand) >= 2
  /\ msg = "Dealer's hand:"
  /\ player_money = 2
  /\ bet = 1

\* Points of a rank with the Ace counted 1.
RankPoints(v) ==
  CASE v = "A" -> 1
    [] v = "2" -> 2 [] v = "3" -> 3 [] v = "4" -> 4 [] v = "5" -> 5
    [] v = "6" -> 6 [] v = "7" -> 7 [] v = "8" -> 8 [] v = "9" -> 9
    [] v \in {"10", "J", "Q", "K"} -> 10

RECURSIVE AceLowSum(_)
AceLowSum(hand) ==
  IF hand = <<>> THEN 0
  ELSE RankPoints(hand[Len(hand)].value) + AceLowSum(SubSeq(hand, 1, Len(hand) - 1))

NumAces(hand) == Len(SelectSeq(hand, LAMBDA c : c.value = "A"))

\* The totals a hand can be given by valuing each Ace 11 or 1.
Valuations(hand) == {AceLowSum(hand) + 10 * k : k \in 0..NumAces(hand)}

\* The highest valuation not over 21, or the lowest valuation if all are.
BestValuation(hand) ==
  LET fits == {t \in Valuations(hand) : t <= 21}
  IN  IF fits # {} THEN CHOOSE t \in fits : \A u \in fits : u <= t
      ELSE AceLowSum(hand)

\* C12. Soft-mode optimality: the soft score of a hand is its highest
\* valuation not over 21 with each Ace worth 11 or 1, or the all-Aces-low
\* total when every valuation is over 21; two Aces score 12, four Aces 14,
\* an Ace with a ten-valued card 21.
C12_SoftOptimal ==
  pc = "soft"
    => /\ player_total = BestValuation(player_hand)
       /\ HandValues(player_hand) = <<"A", "A">> => player_total = 12
       /\ HandValues(player_hand) = <<"A", "A", "A", "A">> => player_total = 14
       /\ (Len(player_hand) = 2 /\ NumAces(player_hand) = 1
             /\ AceLowSum(player_hand) = 11) => player_total = 21

C12_Witness ==
  /\ pc = "soft"
  /\ HandValues(player_hand) = <<"A", "A", "A", "A">>
  /\ player_total = 14

\* C13. Hard mode and Ace-free hands: with has_hit_after_ace set the score
\* is the sum with every Ace worth 1, over 21 or not; a hand without Aces
\* scores the plain sum of its rank values in both modes; the empty hand
\* scores 0.
C13_HardAndAceFree ==
  pc \in {"soft", "hard"}
    => /\ pc = "hard" => player_total = AceLowSum(player_hand)
       /\ NumAces(player_hand) = 0 => player_total = AceLowSum(player_hand)
       /\ player_hand = NoCards => player_total = 0
       /\ (pc = "hard" /\ HandValues(player_hand) = <<"A", "A", "A", "A">>)
            => player_total = 4

C13_Witness ==
  /\ pc = "hard"
  /\ HandValues(player_hand) = <<"A", "A", "A", "A">>
  /\ player_total = 4

\* C14. Invalid decision is a no-op: a move that is neither 'hit' nor
\* 'stay' changes neither hand, nor the deck, the balance or the bet, and
\* the move prompt follows; 'stay' ends the player's turn and the player's
\* hand takes no further card in the round.
C14_InvalidMoveNoOp ==
  [][ /\ pc = "move"
           => /\ \A move \in MoveInputs \ {"hit", "stay"} :
                   MoveInvalid(move)
                     => /\ pc' = "move"
                        /\ UNCHANGED <<player_hand, dealer_hand, deck,
                                       player_money, bet>>
              /\ Stay("stay")
                   => /\ pc' = "player_done"
                      /\ UNCHANGED <<player_hand, dealer_hand, deck,
                                     player_money, bet>>
      /\ pc \in {"player_done", "dealer", "final"} => player_hand' = player_hand
    ]_vars

C14_Witness ==
  /\ pc = "move"
  /\ msg = InvalidMoveMsg
  /\ Len(player_hand) >= 2
  /\ Len(dealer_hand) = 1

\* C15. Implicit stand on 21: a hit that brings the player's total to
\* exactly 21 ends the player's turn, after which the player's hand takes
\* no card; a move is asked for only while the player's total is below 21.
C15_ImplicitStandOn21 ==
  /\ [](pc = "move" => Total(player_hand) < 21)
  /\ [][ /\ (pc = "move" /\ player_hand' # player_hand
               /\ Total(player_hand') = 21)
              => pc' = "player_done"
         /\ (pc # "move" /\ pc' \in {"player_done", "dealer", "final", "round_over"})
              => player_hand' = player_hand
       ]_vars

C15_Witness ==
  /\ pc = "player_done"
  /\ msg = "It's your lucky day. You hit 21!"
  /\ Len(player_hand) >= 3
  /\ Total(player_hand) = 21

\* The cards of a sequence with their multiplicities.
CardBag(cards) == BagOfAll(LAMBDA i : cards[i], SetToBag(DOMAIN cards))

\* The bag holding every (rank, suit) pair exactly twice.
DoubleDeckBag ==
  [c \in {[value |-> values[i], suit |-> suits[j]] :
            i \in DOMAIN values, j \in DOMAIN suits} |-> 2]

\* Every (rank, suit) pair occurs exactly twice in cards.
IsDoubleDeck(cards) == CardBag(cards) = DoubleDeckBag

\* C16. Initial deal: every accepted bet, whatever happened in earlier
\* rounds, deals from a fresh shuffle of the 104-card double deck holding
\* each (rank, suit) pair exactly twice; the player's card is the first one
\* drawn (the deck's end) and the dealer's the second, so the player's turn
\* starts with one card in each hand and 102 in the deck; the dealer's hand
\* stays at one card until the dealer's turn, where alone it grows.
C16_InitialDeal ==
  /\ [][ /\ (pc = "bet" /\ pc' = "move")
              => /\ Len(player_hand') = 1
                 /\ Len(dealer_hand') = 1
                 /\ Len(deck') = 102
                 /\ IsDoubleDeck(deck' \o dealer_hand' \o player_hand')
                 /\ (deck' \o dealer_hand' \o player_hand') \in ShuffledDecks
         /\ (Len(dealer_hand) >= 1 /\ Len(dealer_hand') > Len(dealer_hand))
              => pc = "dealer"
       ]_vars
  /\ [](pc \in {"move", "player_done"} => Len(dealer_hand) = 1)

C16_Witness ==
  /\ pc = "move"
  /\ Len(deck) = 102
  /\ Len(player_hand) = 1
  /\ Len(dealer_hand) = 1
  /\ player_hand[1].value = "A"
  /\ dealer_hand[1].value = "K"


\* One card leaves the end of the deck and becomes the last card of `after`.
MovesLastCard(before, after) ==
  /\ Len(deck) > 0
  /\ deck' = SubSeq(deck, 1, Len(deck) - 1)
  /\ after = Append(before, deck[Len(deck)])

\* C17. Card conservation: from the deal to the settlement of a round the
\* deck and the two hands hold together exactly the 104-card double deck,
\* and every step either leaves deck and hands as they are or moves the
\* deck's last card to the end of exactly one hand; so no hand shrinks, the
\* deck never grows, and the player's hand is fixed once the player's loop
\* is left.
C17_CardConservation ==
  /\ [](InRound \/ pc = "round_over"
          => IsDoubleDeck(deck \o player_hand \o dealer_hand))
  /\ [][ /\ InRound
              => \/ UNCHANGED <<deck, player_hand, dealer_hand>>
                 \/ /\ MovesLastCard(player_hand, player_hand')
                    /\ dealer_hand' = dealer_hand
                 \/ /\ MovesLastCard(dealer_hand, dealer_hand')
                    /\ player_hand' = player_hand
         /\ pc \in {"player_done", "dealer", "final"}
              => player_hand' = player_hand
       ]_vars

C17_Witness ==
  /\ pc = "final"
  /\ Len(player_hand) >= 2
  /\ Len(dealer_hand) >= 3
  /\ Len(deck) + Len(player_hand) + Len(dealer_hand) = 104


\* C18. Non-negative balance: once the buy-in loop is left (with a positive
\* buy-in) the balance is never negative, and a round changes it, in its
\* settling step alone, to no less than the balance minus the bet and to no
\* more than the balance plus floor(2.5 * bet).
C18_NonNegativeBalance ==
  /\ [](pc # "buy_in" => player_money >= 0)
  /\ [][ InRound
           => /\ player_money' >= player_money - bet
              /\ player_money' <= player_money + Floor2_5(bet)
              /\ pc' # "round_over" => player_money' = player_money
       ]_vars

C18_Witness ==
  /\ pc = "round_over"
  /\ bet = MaxMoney
  /\ player_money = 0
  /\ msg \in {BustedMsg, DealerWinsMsg}


\* C19. Round termination: with valid answers typed sooner or later, every
\* round that was dealt is settled.  Each hit raises the player's Ace-low
\* sum, taken only below 21, and each dealer draw raises the dealer's,
\* taken only below 17; so the player holds at most 21 cards and the dealer
\* at most 17, however the player answers.
C19_RoundTermination ==
  /\ InRound ~> pc = "round_over"
  /\ [][ /\ (pc = "move" /\ player_hand' # player_hand)
              => /\ AceLowSum(player_hand) < 21
                 /\ AceLowSum(player_hand') > AceLowSum(player_hand)
                 /\ Total(player_hand') >= 21 => pc' = "player_done"
         /\ (pc = "dealer" /\ dealer_hand' # dealer_hand)
              => /\ AceLowSum(dealer_hand) < 17
                 /\ AceLowSum(dealer_hand') > AceLowSum(dealer_hand)
       ]_vars
  /\ [](Len(player_hand) <= 21 /\ Len(dealer_hand) <= 17)

C19_Witness ==
  /\ pc = "round_over"
  /\ Len(player_hand) >= 5
  /\ Len(dealer_hand) >= 4


\* C20. Standing below 17: a round whose player's loop ends with a total
\* under 17 goes on to the dealer's turn, and its settlement is never a
\* push: the balance rises by the bet exactly when the dealer's hand is
\* over 21 and falls by the bet otherwise.
C20_StandBelow17 ==
  [][ Total(player_hand) < 17
        => /\ pc = "player_done"
                => /\ pc' = "dealer"
                   /\ player_money' = player_money
           /\ (pc \in {"dealer", "final"} /\ pc' = "round_over")
                => /\ msg' # PushMsg
                   /\ player_money' # player_money
                   /\ player_money' = player_money + bet
                        <=> Total(dealer_hand) > 21
                   /\ Total(dealer_hand) <= 21
                        => /\ player_money' = player_money - bet
                           /\ msg' = DealerWinsMsg
    ]_vars

C20_Witness ==
  /\ pc = "round_over"
  /\ Len(player_hand) = 1
  /\ Total(player_hand) < 17
  /\ msg = DealerBustsMsg
  /\ Total(dealer_hand) > 21

====
